---- MODULE Spec2Model ----
(***************************************************************************)
(* The DriveHub booking API of src/models.js: the Booking schema, the      *)
(* multer file intake, POST /api/bookings, GET /api/bookings/:bookingId    *)
(* and GET /api/bookings, over a document store with a unique index on     *)
(* bookingId.                                                              *)
(*                                                                         *)
(* JavaScript values are pairs <<typeof, text>>, so that the string "true" *)
(* and the boolean true are different values, and truthiness, strict       *)
(* equality and the || default are computed as JavaScript computes them.   *)
(* The rate limiter, helmet, cors and morgan (lines 40-54) act before      *)
(* every route alike and are not modelled.                                 *)
(***************************************************************************)
EXTENDS Integers, Sequences, FiniteSets, Bags, TLC

VARIABLES
  store,      \* the bookings collection, in insertion order
  files,      \* the names in the upload directory
  now,        \* Date.now()
  pending,    \* the requests suspended at `await booking.save()`
  last,       \* the latest request answered, with its response
  submitted   \* history: the request each stored bookingId was created from

vars == <<store, files, now, pending, last, submitted>>

(***************************************************************************)
(* Bounds of the model.                                                    *)
(***************************************************************************)
\* Tokens shortid.generate() can return.
NumTokens == 2
\* Requests suspended at `await booking.save()` at the same time.
MaxPending == 1
\* The same, where submissions race for an id.
MaxRacing == 2
\* Values shortid.generate() returns for the file names of racing submissions.
NumNames == 4
\* Values Date.now() takes: 0..MaxTime.
MaxTime == 1
\* Fields and parts of the example submission a request changes at once.
MaxDefects == 2
\* The list endpoint is applied to stores of up to ListLimit + MaxOver bookings,
\* created at times that repeat with a period of up to MaxPeriod.
MaxOver == 2
MaxPeriod == 4

(***************************************************************************)
(* JavaScript values.                                                      *)
(***************************************************************************)
Undefined == <<"undefined", "">>
Null == <<"object", "null">>
Str(s) == <<"string", s>>
Bool(b) == <<"boolean", IF b THEN "true" ELSE "false">>

\* !v for the values above: undefined, null, '' and false are falsy.
Falsy(v) == v = Undefined \/ v = Null \/ v = Str("") \/ v = Bool(FALSE)

\* a || b
OrElse(a, b) == IF Falsy(a) THEN b ELSE a

(***************************************************************************)
(* Requests: the multipart body fields and the two file parts.             *)
(***************************************************************************)
RequiredFields ==
  <<"name", "contact", "aadhar", "license", "pickup", "drop", "pickupDate", "returnDate">>

Slots == <<"aadharPhoto", "licensePhoto">>

FileSizeLimit == 5 * 1024 * 1024

NoPart == [present |-> FALSE, mimetype |-> <<"", "">>, size |-> 0]
Part(type, subtype, size) == [present |-> TRUE, mimetype |-> <<type, subtype>>, size |-> size]
Jpeg == Part("image", "jpeg", 1024)
Pdf == Part("application", "pdf", 1024)
BigJpeg == Part("image", "jpeg", FileSizeLimit + 1)

\* The example submission of the API: every field valid, two small JPEG parts.
Example ==
  [body |-> [name |-> Str("A"), contact |-> Str("9999999999"), aadhar |-> Str("1234"),
             license |-> Str("LIC1"), pickup |-> Str("X"), drop |-> Str("Y"),
             pickupDate |-> Str("2024-01-01"), returnDate |-> Str("2024-01-05"),
             paymentMode |-> Undefined, txnId |-> Undefined,
             aadhaarVerified |-> Str("true")],
   files |-> [aadharPhoto |-> Jpeg, licensePhoto |-> Jpeg]]

SeqRange(s) == {s[i] : i \in 1..Len(s)}

\* Changes of one body field.
FieldDefects ==
  {<<RequiredFields[i], Undefined>> : i \in 1..Len(RequiredFields)}
    \cup {<<"name", Str("")>>, <<"returnDate", Str("")>>}
FlagDefects == {<<"aadhaarVerified", v>> : v \in {Undefined, Str("false"), Str("yes")}}
DateDefects == {<<"pickupDate", Str("not-a-date")>>, <<"returnDate", Str("not-a-date")>>}
PaymentDefects ==
  {<<"paymentMode", v>> : v \in {Str(""), Str("Cash"), Str("Card")}}
    \cup {<<"txnId", v>> : v \in {Str(""), Str("T1")}}
\* Changes of one file part.
PartDefects == {<<s, p>> : s \in SeqRange(Slots), p \in {NoPart, Pdf, BigJpeg}}

WithField(r, d) == [r EXCEPT !.body[d[1]] = d[2]]
WithPart(r, d) == [r EXCEPT !.files[d[1]] = d[2]]

\* The example with at most n of the given changes.
RECURSIVE Deviate(_, _, _)
Deviate(fieldDefects, partDefects, n) ==
  IF n = 0 THEN {Example}
  ELSE LET R == Deviate(fieldDefects, partDefects, n - 1)
       IN  R \cup {WithField(r, d) : r \in R, d \in fieldDefects}
             \cup {WithPart(r, d) : r \in R, d \in partDefects}

\* A JSON body (express.json, line 46) carries booleans and never file parts.
JsonRequests ==
  {[body |-> [Example.body EXCEPT !.aadhaarVerified = Bool(b)],
    files |-> [aadharPhoto |-> NoPart, licensePhoto |-> NoPart]] : b \in BOOLEAN}

\* The example with changes that decide the gates and the file intake.
GateRequests ==
  Deviate(FieldDefects \cup FlagDefects, PartDefects, MaxDefects) \cup JsonRequests

\* The example with changes that decide what is stored, and a few that
\* the gates or the file intake turn down.
StoreRequests ==
  Deviate(DateDefects \cup PaymentDefects, {}, MaxDefects)
    \cup Deviate({<<"aadhaarVerified", Undefined>>},
                 {<<"aadharPhoto", NoPart>>, <<"licensePhoto", Pdf>>}, 1)

(***************************************************************************)
(* File Intake: multer with disk storage (lines 64-85, 106-109).           *)
(***************************************************************************)
\* file.mimetype.startsWith('image/')
FileFilter(part) == part.mimetype[1] = "image"

\* limits.fileSize: a part is cut off, and the request aborted, past the limit.
WithinLimit(part) == part.size <= FileSizeLimit

\* `${Date.now()}-${shortid.generate()}${ext}`: the time and the token make
\* the name; the extension, copied from the client's file name, is left out.
StoredName(t, tok) == <<t, tok>>

NoFile == [stored |-> FALSE, filename |-> <<0, 0>>]
StoredFile(name) == [stored |-> TRUE, filename |-> name]

\* The error multer passes to next(err), or "none". The parts are taken in
\* the order of Slots; the filter sees a part before any of its bytes.
UploadError(req) ==
  LET failing == {i \in 1..Len(Slots) :
                    /\ req.files[Slots[i]].present
                    /\ ~(FileFilter(req.files[Slots[i]]) /\ WithinLimit(req.files[Slots[i]]))}
      first == CHOOSE i \in failing : \A j \in failing : i <= j
  IN  IF failing = {} THEN "none"
      ELSE IF ~FileFilter(req.files[Slots[first]]) THEN "Only image uploads allowed"
      ELSE "LIMIT_FILE_SIZE"

\* req.files after multer accepted every part, the names being toks[slot].
ReqFiles(req, t, toks) ==
  [s \in SeqRange(Slots) |->
     IF req.files[s].present THEN StoredFile(StoredName(t, toks[s])) ELSE NoFile]

\* The names written to the upload directory for req.files.
Written(reqFiles) == {reqFiles[s].filename : s \in {x \in SeqRange(Slots) : reqFiles[x].stored}}

(***************************************************************************)
(* Responses.                                                              *)
(***************************************************************************)
NoId == <<"", 0>>
NoDoc == [bookingId |-> NoId]

Response(req, status, error, json, trace, id, doc) ==
  [op |-> "post", req |-> req, status |-> status, error |-> error, json |-> json,
   trace |-> trace, bookingId |-> id, booking |-> doc]

\* No error middleware is registered, so an error passed to next(err) that
\* carries no status reaches Express's default handler: 500 and an HTML page.
Unhandled(req, err) ==
  Response(req, 500, err, FALSE, <<>>, NoId, NoDoc)

\* res.status(s).json({ error })
JsonError(req, status, error, trace) ==
  Response(req, status, error, TRUE, trace, NoId, NoDoc)

(***************************************************************************)
(* The Booking schema and the document the handler builds (lines 4-20,     *)
(* 135-152).                                                               *)
(***************************************************************************)
InvalidDate == [valid |-> FALSE, time |-> 0]

\* new Date(v): the day number of an ISO date string, or Invalid Date.
NewDate(v) ==
  CASE v = Str("2024-01-01") -> [valid |-> TRUE, time |-> 19723]
    [] v = Str("2024-01-05") -> [valid |-> TRUE, time |-> 19727]
    [] OTHER -> InvalidDate

PaymentModes == {Str("UPI"), Str("Cash")}

\* `DH-${shortid.generate()}`
BookingId(tok) == <<"DH-", tok>>

UploadPath(filename) == <<"/uploads/", filename>>

IsTrueFlag(v) == v = Str("true") \/ v = Bool(TRUE)

\* The document with pickup and drop taken from each other's field.
PlacesSwapped(body, reqFiles, id, t) ==
  [bookingId |-> id,
   name |-> body.name, contact |-> body.contact, aadhar |-> body.aadhar,
   aadharPhoto |-> UploadPath(reqFiles.aadharPhoto.filename),
   license |-> body.license,
   licensePhoto |-> UploadPath(reqFiles.licensePhoto.filename),
   pickup |-> body.drop, drop |-> body.pickup,
   pickupDate |-> NewDate(body.pickupDate),
   returnDate |-> NewDate(body.returnDate),
   paymentMode |-> OrElse(body.paymentMode, Str("UPI")),
   txnId |-> OrElse(body.txnId, Null),
   aadhaarVerified |-> IsTrueFlag(body.aadhaarVerified),
   createdAt |-> t]

NewBooking(body, reqFiles, id, t) ==
  [bookingId |-> id,
   name |-> body.name, contact |-> body.contact, aadhar |-> body.aadhar,
   aadharPhoto |-> UploadPath(reqFiles.aadharPhoto.filename),
   license |-> body.license,
   licensePhoto |-> UploadPath(reqFiles.licensePhoto.filename),
   pickup |-> body.pickup, drop |-> body.drop,
   pickupDate |-> NewDate(body.pickupDate),
   returnDate |-> NewDate(body.returnDate),
   paymentMode |-> OrElse(body.paymentMode, Str("UPI")),
   txnId |-> OrElse(body.txnId, Null),
   aadhaarVerified |-> IsTrueFlag(body.aadhaarVerified),
   createdAt |-> t]

\* Mongoose's validation of a document against bookingSchema.
NonEmptyString(v) == v[1] = "string" /\ v # Str("")
SchemaValid(doc) ==
  /\ \A f \in {"name", "contact", "aadhar", "license", "pickup", "drop"} : NonEmptyString(doc[f])
  /\ doc.pickupDate.valid /\ doc.returnDate.valid
  /\ doc.paymentMode \in PaymentModes

(***************************************************************************)
(* POST /api/bookings: the handler up to `await booking.save()` (lines     *)
(* 110-152). It runs without yielding, so it is one step.                  *)
(***************************************************************************)
\* The first gate without returnDate in its condition.
ReturnDateUnchecked(body) ==
  \E i \in 1..(Len(RequiredFields) - 1) : Falsy(body[RequiredFields[i]])

\* !name || !contact || ... || !returnDate
MissingRequired(body) == \E i \in 1..Len(RequiredFields) : Falsy(body[RequiredFields[i]])

\* The second gate with its first disjunct only.
FalsyFlagOnly(body) == Falsy(body.aadhaarVerified)

\* !aadhaarVerified || (aadhaarVerified !== 'true' && aadhaarVerified !== true)
NotVerified(body) ==
  \/ Falsy(body.aadhaarVerified)
  \/ (body.aadhaarVerified # Str("true") /\ body.aadhaarVerified # Bool(TRUE))

\* The third gate with && for ||.
BothPhotosMissing(reqFiles) == ~reqFiles.aadharPhoto.stored /\ ~reqFiles.licensePhoto.stored

\* !aadharPhotoFile || !licensePhotoFile
MissingPhotos(reqFiles) == ~reqFiles.aadharPhoto.stored \/ ~reqFiles.licensePhoto.stored

\* The handler with the verification gate placed before the required-field gate.
VerificationFirst(req, reqFiles, tok, t) ==
  IF NotVerified(req.body)
  THEN [kind |-> "reply",
        response |-> JsonError(req, 400, "Aadhaar must be verified before booking",
                               <<"verification">>)]
  ELSE IF MissingRequired(req.body)
  THEN [kind |-> "reply",
        response |-> JsonError(req, 400, "Missing required fields",
                               <<"verification", "fields">>)]
  ELSE IF MissingPhotos(reqFiles)
  THEN [kind |-> "reply",
        response |-> JsonError(req, 400, "Aadhaar and License photos are required",
                               <<"verification", "fields", "documents">>)]
  ELSE [kind |-> "save", req |-> req, written |-> Written(reqFiles),
        trace |-> <<"verification", "fields", "documents">>,
        doc |-> NewBooking(req.body, reqFiles, BookingId(tok), t)]

\* What the handler does with a request multer let through: a reply, or a
\* document handed to save(). trace lists the gates it evaluated, in order.
Handle(req, reqFiles, tok, t) ==
  IF MissingRequired(req.body)
  THEN [kind |-> "reply",
        response |-> JsonError(req, 400, "Missing required fields", <<"fields">>)]
  ELSE IF NotVerified(req.body)
  THEN [kind |-> "reply",
        response |-> JsonError(req, 400, "Aadhaar must be verified before booking",
                               <<"fields", "verification">>)]
  ELSE IF MissingPhotos(reqFiles)
  THEN [kind |-> "reply",
        response |-> JsonError(req, 400, "Aadhaar and License photos are required",
                               <<"fields", "verification", "documents">>)]
  ELSE [kind |-> "save", req |-> req, written |-> Written(reqFiles),
        trace |-> <<"fields", "verification", "documents">>,
        doc |-> NewBooking(req.body, reqFiles, BookingId(tok), t)]

(***************************************************************************)
(* The store: the bookings collection in insertion order.                  *)
(***************************************************************************)
Ids(records) == {records[i].bookingId : i \in 1..Len(records)}

\* save() against a collection without the unique index.
NoUniqueIndex(records, doc, up) == up /\ SchemaValid(doc)

\* booking.save(): validation, then the insert under the unique index on
\* bookingId; up is whether the database answers.
CanSave(records, doc, up) == up /\ SchemaValid(doc) /\ doc.bookingId \notin Ids(records)

\* An insert that is written although save() throws.
SavedAnyway(records, doc, up) == Append(records, doc)

Saved(records, doc, up) == IF CanSave(records, doc, up) THEN Append(records, doc) ELSE records

\* Booking.findOne({ bookingId })
FindOne(records, id) ==
  LET hits == {i \in 1..Len(records) : records[i].bookingId = id}
  IN  IF hits = {} THEN NoDoc ELSE records[CHOOSE i \in hits : \A j \in hits : i <= j]

ListLimit == 200

Min(a, b) == IF a <= b THEN a ELSE b

\* sort({ createdAt: 1 })
Older(a, b, tie) ==
  \/ a[2].createdAt < b[2].createdAt
  \/ a[2].createdAt = b[2].createdAt /\ (IF tie = "natural" THEN a[1] < b[1] ELSE a[1] > b[1])

\* Booking.find().sort({ createdAt: -1 }).limit(200): newest first. MongoDB
\* leaves the order of equal keys open: tie picks insertion order or its reverse.
Newer(a, b, tie) ==
  \/ a[2].createdAt > b[2].createdAt
  \/ a[2].createdAt = b[2].createdAt /\ (IF tie = "natural" THEN a[1] < b[1] ELSE a[1] > b[1])

ListRecent(records, tie) ==
  LET indexed == [i \in 1..Len(records) |-> <<i, records[i]>>]
      sorted == SortSeq(indexed, LAMBDA a, b : Newer(a, b, tie))
  IN  [i \in 1..Min(Len(records), ListLimit) |-> sorted[i][2]]

Ties == {"natural", "reverse"}

(***************************************************************************)
(* Steps.                                                                  *)
(***************************************************************************)
Init ==
  /\ store = <<>>
  /\ files = {}
  /\ now = 0
  /\ pending = EmptyBag
  /\ last = [op |-> "none"]
  /\ submitted = <<>>

\* Date.now() advances.
Tick ==
  /\ now < MaxTime
  /\ now' = now + 1
  /\ UNCHANGED <<store, files, pending, last, submitted>>

\* A request that multer aborts: nothing of it is kept in the upload
\* directory and the handler never runs.
Abort(requests) ==
  \E req \in requests :
    /\ UploadError(req) # "none"
    /\ last' = Unhandled(req, UploadError(req))
    /\ UNCHANGED <<store, files, now, pending, submitted>>

\* What multer can make of the parts of req. The names it generates are
\* taken to be new, each time: the model follows the runs in which no file
\* is written over (File Intake's names are built to be collision-resistant),
\* so that a name stands for one upload.
Uploads(req, names) ==
  {u \in {ReqFiles(req, now, toks) : toks \in [SeqRange(Slots) -> names]} :
     /\ Written(u) \cap files = {}
     /\ (u.aadharPhoto.stored /\ u.licensePhoto.stored)
          => u.aadharPhoto.filename # u.licensePhoto.filename}

\* A request whose parts multer stored and that the handler answers itself,
\* before it generates an id.
Reject(requests, names) ==
  \E req \in requests :
    /\ UploadError(req) = "none"
    /\ \E reqFiles \in Uploads(req, names) :
         LET h == Handle(req, reqFiles, 0, now)
         IN  /\ h.kind = "reply"
             /\ files' = files \cup Written(reqFiles)
             /\ last' = h.response
    /\ UNCHANGED <<store, now, pending, submitted>>

\* A request that passes the gates and is suspended at save().
Submit(requests, names, tokens, cap) ==
  /\ BagCardinality(pending) < cap
  /\ \E req \in requests :
       /\ UploadError(req) = "none"
       /\ \E reqFiles \in Uploads(req, names), tok \in tokens :
            LET h == Handle(req, reqFiles, tok, now)
            IN  /\ h.kind = "save"
                /\ files' = files \cup Written(reqFiles)
                /\ pending' = pending (+) SetToBag({h})
  /\ UNCHANGED <<store, now, last, submitted>>

\* save() returns or throws, and the handler answers 201 or, from its catch, 500.
Complete ==
  \E p \in BagToSet(pending), up \in BOOLEAN :
    /\ pending' = pending (-) SetToBag({p})
    /\ store' = Saved(store, p.doc, up)
    /\ last' = IF CanSave(store, p.doc, up)
               THEN Response(p.req, 201, "", TRUE, p.trace, p.doc.bookingId, p.doc)
               ELSE JsonError(p.req, 500, "Server error", p.trace)
    /\ submitted' = IF CanSave(store, p.doc, up)
                    THEN (p.doc.bookingId :> p.req) @@ submitted
                    ELSE submitted
    /\ UNCHANGED <<files, now>>

\* GET /api/bookings/:bookingId
GetBooking(tokens) ==
  \E tok \in tokens, up \in BOOLEAN :
    LET b == FindOne(store, BookingId(tok))
    IN  /\ last' = [op |-> "get", id |-> BookingId(tok),
                    status |-> IF ~up THEN 500 ELSE IF b = NoDoc THEN 404 ELSE 200,
                    booking |-> IF up THEN b ELSE NoDoc]
        /\ UNCHANGED <<store, files, now, pending, submitted>>

\* GET /api/bookings
ListBookings ==
  \E tie \in Ties, up \in BOOLEAN :
    /\ last' = [op |-> "list", status |-> IF up THEN 200 ELSE 500,
                bookings |-> IF up THEN ListRecent(store, tie) ELSE <<>>]
    /\ UNCHANGED <<store, files, now, pending, submitted>>

Tokens == 1..NumTokens

Next ==
  \/ Tick
  \/ Abort(StoreRequests)
  \/ Reject(StoreRequests, Tokens)
  \/ Submit(StoreRequests, Tokens, Tokens, MaxPending)
  \/ Complete
  \/ GetBooking(Tokens)
  \/ ListBookings

Spec == Init /\ [][Next]_vars

\* The same workflow over every shape of request the gates tell apart.
NextGates ==
  \/ Tick
  \/ Abort(GateRequests)
  \/ Reject(GateRequests, Tokens)
  \/ Submit(GateRequests, Tokens, Tokens, MaxPending)
  \/ Complete
  \/ GetBooking(Tokens)
  \/ ListBookings

SpecGates == Init /\ [][NextGates]_vars

\* Submissions of the example racing for the same ids, with file names enough
\* for each of them.
Names == 1..NumNames

NextRace ==
  \/ Tick
  \/ Submit({Example}, Names, Tokens, MaxRacing)
  \/ Complete
  \/ GetBooking(Tokens)
  \/ ListBookings

SpecRace == Init /\ [][NextRace]_vars

\* The list endpoint over stores around its limit. Booking i was built
\* from the example at time (a * i) % m: in order, out of order, with ties.
ListSizes == 0..MaxOver \cup (ListLimit - 1)..(ListLimit + MaxOver)

ExampleFiles == ReqFiles(Example, 0, [s \in SeqRange(Slots) |-> 1])

InitList ==
  \E n \in ListSizes, a \in 1..MaxPeriod, m \in 1..MaxPeriod :
    /\ store = [i \in 1..n |->
                  NewBooking(Example.body, ExampleFiles, BookingId(i), (a * i) % m)]
    /\ files = IF n = 0 THEN {} ELSE Written(ExampleFiles)
    /\ now = 0
    /\ pending = EmptyBag
    /\ last = [op |-> "none"]
    /\ submitted = [id \in {store[i].bookingId : i \in 1..Len(store)} |-> Example]

NextList == ListBookings

SpecList == InitList /\ [][NextList]_vars

(***************************************************************************)
(* The vocabulary of the claims, stated on the submission as the client    *)
(* sent it.                                                                *)
(***************************************************************************)
AbsentOrEmpty(v) == v = Undefined \/ v = Str("")

AnyRequiredMissing(req) ==
  \E f \in {"name", "contact", "aadhar", "license", "pickup", "drop", "pickupDate", "returnDate"} :
    AbsentOrEmpty(req.body[f])

FlagIsTrue(req) == req.body.aadhaarVerified \in {Str("true"), Bool(TRUE)}

BothPhotosSent(req) == req.files.aadharPhoto.present /\ req.files.licensePhoto.present

NotAnImage(part) == part.present /\ part.mimetype[1] # "image"
Oversize(part) == part.present /\ part.size > 5 * 1024 * 1024

\* File Intake turns no part of the submission down.
PartsAccepted(req) ==
  \A s \in {"aadharPhoto", "licensePhoto"} : ~NotAnImage(req.files[s]) /\ ~Oversize(req.files[s])

Answered == last.op = "post"

\* This step answers a submission.
Answers == last' # last /\ last'.op = "post"

MissingFields(r) == r.status = 400 /\ r.json /\ r.error = "Missing required fields"
VerificationRequired(r) ==
  r.status = 400 /\ r.json /\ r.error = "Aadhaar must be verified before booking"
MissingDocuments(r) ==
  r.status = 400 /\ r.json /\ r.error = "Aadhaar and License photos are required"
ServerError(r) == r.status = 500 /\ r.json /\ r.error = "Server error"

(***************************************************************************)
(* C1. As claimed: every submission with a required field absent or empty  *)
(* is answered 400 'Missing required fields' and leaves the bookings as    *)
(* they were. Refuted by a submission that also carries a part File Intake *)
(* turns down: multer aborts it before the handler runs.                   *)
(***************************************************************************)
C1_AsClaimed ==
  [][(Answers /\ AnyRequiredMissing(last'.req))
       => (MissingFields(last') /\ store' = store)]_vars

\* C1, amended: every submission with a required field absent or empty, none
\* of whose parts File Intake turns down, is answered 400 'Missing required
\* fields' and leaves the bookings as they were.
C1_MissingFields ==
  [][(Answers /\ AnyRequiredMissing(last'.req) /\ PartsAccepted(last'.req))
       => (MissingFields(last') /\ store' = store)]_vars

C1_Witness ==
  /\ Answered /\ AnyRequiredMissing(last.req) /\ PartsAccepted(last.req)
  /\ FlagIsTrue(last.req) /\ BothPhotosSent(last.req)
  /\ MissingFields(last)
  /\ Len(store) > 0

(***************************************************************************)
(* C3. As claimed: every submission whose verification flag is neither     *)
(* true nor "true" is answered 400 'Aadhaar must be verified before        *)
(* booking', whatever its other fields and parts, and stores nothing.      *)
(* Refuted by a submission that also lacks a required field.               *)
(***************************************************************************)
C3_AsClaimed ==
  [][(Answers /\ ~FlagIsTrue(last'.req))
       => (VerificationRequired(last') /\ store' = store)]_vars

\* C3, amended: every submission whose verification flag is neither true nor
\* "true", whose required fields are all present and non-empty and none of
\* whose parts File Intake turns down, is answered 400 'Aadhaar must be
\* verified before booking' and stores nothing.
C3_VerificationRequired ==
  [][(Answers /\ ~FlagIsTrue(last'.req) /\ ~AnyRequiredMissing(last'.req)
        /\ PartsAccepted(last'.req))
       => (VerificationRequired(last') /\ store' = store)]_vars

C3_Witness ==
  /\ Answered /\ last.req.body.aadhaarVerified = Str("false")
  /\ ~AnyRequiredMissing(last.req) /\ PartsAccepted(last.req)
  /\ ~BothPhotosSent(last.req)
  /\ VerificationRequired(last)
  /\ Len(store) > 0

(***************************************************************************)
(* C7. A submission with a part that is not an image, or is larger than    *)
(* 5 MiB, is turned down before any gate runs, with a 400 {error}          *)
(* response, and stores nothing.                                           *)
(***************************************************************************)
C7_IntakeRejects ==
  [][(Answers /\ ~PartsAccepted(last'.req))
       => /\ last'.trace = <<>>
          /\ last'.status = 400 /\ last'.json
          /\ store' = store /\ pending' = pending]_vars

(***************************************************************************)
(* C9. The gates run in the order fields, verification, documents; the     *)
(* answer names the first that fails; 'photos are required' is the answer  *)
(* exactly when the first two gates passed and a photo part is absent; and *)
(* only a submission that passed all three reaches save().                 *)
(***************************************************************************)
GateOrder == <<"fields", "verification", "documents">>

C9_GateOrder ==
  /\ Answered =>
       /\ Len(last.trace) <= Len(GateOrder)
       /\ \A i \in 1..Len(last.trace) : last.trace[i] = GateOrder[i]
       /\ Len(last.trace) >= 2 => ~AnyRequiredMissing(last.req)
       /\ Len(last.trace) >= 3 => FlagIsTrue(last.req)
       /\ (last.trace # <<>> /\ AnyRequiredMissing(last.req)) => MissingFields(last)
       /\ (Len(last.trace) >= 2 /\ ~FlagIsTrue(last.req)) => VerificationRequired(last)
       /\ MissingDocuments(last) <=> (Len(last.trace) = 3 /\ ~BothPhotosSent(last.req))
       /\ last.status \in {201, 500} /\ last.trace # <<>> =>
            /\ ~AnyRequiredMissing(last.req) /\ FlagIsTrue(last.req)
            /\ BothPhotosSent(last.req)
  /\ \A p \in BagToSet(pending) :
       /\ p.trace = GateOrder
       /\ ~AnyRequiredMissing(p.req) /\ FlagIsTrue(p.req) /\ BothPhotosSent(p.req)

\* A submission failing the first two gates is answered by the first.
C9_Witness ==
  /\ Answered /\ AnyRequiredMissing(last.req) /\ ~FlagIsTrue(last.req)
  /\ PartsAccepted(last.req)
  /\ MissingFields(last) /\ last.trace = <<"fields">>
  /\ Len(store) > 0

(***************************************************************************)
(* C2. Every stored booking is verified and refers to two files File       *)
(* Intake stored; a booking is only ever created from a submission whose   *)
(* flag was true and that carried both photos.                             *)
(***************************************************************************)
StoredPhoto(ref) == ref[1] = "/uploads/" /\ ref[2] # <<0, 0>> /\ ref[2] \in files

C2_VerifiedWithPhotos ==
  /\ \A i \in 1..Len(store) :
       /\ store[i].aadhaarVerified = TRUE
       /\ StoredPhoto(store[i].aadharPhoto) /\ StoredPhoto(store[i].licensePhoto)
       /\ store[i].bookingId \in DOMAIN submitted
  /\ \A id \in DOMAIN submitted :
       /\ FlagIsTrue(submitted[id]) /\ BothPhotosSent(submitted[id])
       /\ \E i \in 1..Len(store) : store[i].bookingId = id

C2_Witness ==
  /\ Len(store) > 0
  /\ Answered /\ last.status = 400 /\ ~BothPhotosSent(last.req)

(***************************************************************************)
(* C8. A stored booking carries a transaction id only if it is paid by     *)
(* UPI.                                                                    *)
(***************************************************************************)
C8_TxnOnlyForUpi ==
  \A i \in 1..Len(store) : store[i].txnId # Null => store[i].paymentMode = Str("UPI")

(***************************************************************************)
(* C5. As claimed: GET of a created id answers 200 with the values         *)
(* submitted, dates as timestamps, paymentMode UPI when absent, txnId null *)
(* when absent, photo references to files in storage; GET of any other id  *)
(* answers 404. Reads the store fails to answer (500) are not in question. *)
(* Refuted by a submission with an empty paymentMode or txnId.             *)
(***************************************************************************)
Timestamp(v) ==
  CASE v = Str("2024-01-01") -> 19723
    [] v = Str("2024-01-05") -> 19727

TextAsSubmitted(b, req) ==
  /\ \A f \in {"name", "contact", "aadhar", "license", "pickup", "drop"} : b[f] = req.body[f]
  /\ b.pickupDate.valid /\ b.pickupDate.time = Timestamp(req.body.pickupDate)
  /\ b.returnDate.valid /\ b.returnDate.time = Timestamp(req.body.returnDate)
  /\ b.aadhaarVerified = TRUE
  /\ StoredPhoto(b.aadharPhoto) /\ StoredPhoto(b.licensePhoto)

Read == last.op = "get" /\ last.status # 500

C5_AsClaimed ==
  Read =>
    IF last.id \in DOMAIN submitted
    THEN LET req == submitted[last.id] IN
         /\ last.status = 200
         /\ last.booking.bookingId = last.id
         /\ TextAsSubmitted(last.booking, req)
         /\ last.booking.paymentMode =
              (IF req.body.paymentMode = Undefined THEN Str("UPI") ELSE req.body.paymentMode)
         /\ last.booking.txnId =
              (IF req.body.txnId = Undefined THEN Null ELSE req.body.txnId)
    ELSE last.status = 404

\* C5, amended: whenever the store answers, GET of a created id answers 200
\* with the values submitted, dates as timestamps, paymentMode UPI when
\* absent or empty, txnId null when absent or empty, photo references to
\* files in storage; GET of any other id answers 404; bookings are never
\* changed or removed.
C5_RoundTrip ==
  Read =>
    IF last.id \in DOMAIN submitted
    THEN LET req == submitted[last.id] IN
         /\ last.status = 200
         /\ last.booking.bookingId = last.id
         /\ TextAsSubmitted(last.booking, req)
         /\ last.booking.paymentMode =
              (IF AbsentOrEmpty(req.body.paymentMode) THEN Str("UPI") ELSE req.body.paymentMode)
         /\ last.booking.txnId =
              (IF AbsentOrEmpty(req.body.txnId) THEN Null ELSE req.body.txnId)
    ELSE last.status = 404

C5_Witness ==
  /\ Read /\ last.status = 200
  /\ submitted[last.id].body.paymentMode = Str("Cash")
  /\ submitted[last.id].body.txnId = Str("")
  /\ now > last.booking.createdAt

(***************************************************************************)
(* C10. When a submission passed the three gates and the create fails      *)
(* (bookingId taken, unparsable date, paymentMode outside the enum, or the *)
(* database not answering), there is one attempt and no retry, the answer  *)
(* is 500 'Server error', the bookings are as they were, and its files     *)
(* stay in storage with no booking referring to them.                      *)
(***************************************************************************)
Unparsable(v) == v \notin {Str("2024-01-01"), Str("2024-01-05")}
OutsideEnum(v) == v \notin {Undefined, Str(""), Str("UPI"), Str("Cash")}

CreateMustFail(p) ==
  \/ \E i \in 1..Len(store) : store[i].bookingId = p.doc.bookingId
  \/ Unparsable(p.req.body.pickupDate) \/ Unparsable(p.req.body.returnDate)
  \/ OutsideEnum(p.req.body.paymentMode)

Refers(b, names) == b.aadharPhoto[2] \in names \/ b.licensePhoto[2] \in names

\* The request p, suspended at save(), is answered in this step.
Finishes(p) == p \in BagToSet(pending) /\ pending' = pending (-) SetToBag({p})

\* One attempt per request, with the id generated before it: a step that
\* answers after save() ends exactly one suspended request.
OneAttempt ==
  (Answers /\ last'.trace = GateOrder /\ last'.status \in {201, 500})
    => \E p \in BagToSet(pending) :
         /\ Finishes(p) /\ p.req = last'.req
         /\ last'.status = 201 => last'.bookingId = p.doc.bookingId

FailedCreate(p) ==
  /\ last'.op = "post" /\ last'.req = p.req /\ last'.status \in {201, 500}
  /\ CreateMustFail(p) => last'.status = 500
  /\ last'.status = 500 =>
       /\ ServerError(last')
       /\ store' = store
       /\ Cardinality(p.written) = 2 /\ p.written \subseteq files'
       /\ \A i \in 1..Len(store') : ~Refers(store'[i], p.written)

C4_UniqueIds ==
  /\ [](\A i, j \in 1..Len(store) : store[i].bookingId = store[j].bookingId => i = j)
  /\ []((Answered /\ last.status = 201) =>
          /\ last.bookingId[1] = "DH-" /\ last.bookingId # NoId
          /\ last.bookingId[2] \in Tokens)
  /\ [][\A p \in BagToSet(pending) : Finishes(p) =>
          /\ last'.op = "post"
          /\ last'.status = 201 =>
               /\ last'.bookingId = p.doc.bookingId
               /\ \A i \in 1..Len(store) : store[i].bookingId # last'.bookingId
               /\ store' = Append(store, p.doc)
          /\ (\E i \in 1..Len(store) : store[i].bookingId = p.doc.bookingId) =>
               /\ last'.status = 500 /\ store' = store]_vars

\* Two bookings stored, and a third submission suspended with a taken id.
C4_Witness ==
  /\ Len(store) = 2
  /\ Answered /\ last.status = 201
  /\ \E p \in BagToSet(pending) : \E i \in 1..Len(store) : store[i].bookingId = p.doc.bookingId

(***************************************************************************)
(* C6. Whatever the store holds, the list is at most 200 bookings, newest  *)
(* first, and it is the min(200, n) newest of the n stored: no booking is  *)
(* listed while a newer one is left out. A query the store fails to answer *)
(* (500) lists nothing and is not in question.                             *)
(***************************************************************************)
Listed == last.op = "list" /\ last.status = 200

C6_ListRecent ==
  Listed =>
    LET l == last.bookings
        n == Len(store)
    IN  /\ Len(l) <= 200
        /\ Len(l) = (IF n <= 200 THEN n ELSE 200)
        /\ \A i \in 1..(Len(l) - 1) : l[i].createdAt >= l[i + 1].createdAt
        /\ \A i, j \in 1..Len(l) : l[i].bookingId = l[j].bookingId => i = j
        /\ \A i \in 1..Len(l) : \E k \in 1..n : store[k] = l[i]
        /\ \A k \in 1..n :
             (\A i \in 1..Len(l) : l[i].bookingId # store[k].bookingId)
               => \A i \in 1..Len(l) : l[i].createdAt >= store[k].createdAt

\* More than 200 bookings, created out of order, so that the list is cut.
C6_Witness ==
  /\ Listed /\ Len(store) > 200 /\ Len(last.bookings) = 200
  /\ \E i \in 1..(Len(store) - 1) : store[i].createdAt < store[i + 1].createdAt
  /\ \E i \in 1..(Len(store) - 1) : store[i].createdAt > store[i + 1].createdAt
  /\ last.bookings[1].createdAt > last.bookings[200].createdAt

====
